---- MODULE Spec2Model ----
(***************************************************************************)
(* The command layer of timer_cli (src/timer_cli/main.py): the commands    *)
(* `job submit`, `job list` and `job status`, the usage-on-error           *)
(* Command.make_context, the URL parameter type, the header builder and    *)
(* the response/error presentation.                                        *)
(*                                                                         *)
(* Texts are sequences of lexemes.  A URL text is made of letter words,    *)
(* ":", "/", "?" and "["; a JSON text of "{}" (an empty object), a bare    *)
(* word "x", the two quote characters and a blank.                         *)
(***************************************************************************)
EXTENDS Integers, Sequences, FiniteSets, TLC

\* ------------------------------------------------------------------ bounds
MaxUrlLen == 5
MaxLen == 3

\* ------------------------------------------------------------------- texts
Texts(alphabet, n) == UNION {[1..k -> alphabet] : k \in 0..n}

\* s.find(t) over a set of lexemes, 1-based; 0 when none occurs.
Find(s, ts) ==
  IF \E i \in 1..Len(s) : s[i] \in ts
  THEN CHOOSE i \in 1..Len(s) : s[i] \in ts /\ \A j \in 1..(i - 1) : s[j] \notin ts
  ELSE 0

Drop(s, n) == SubSeq(s, n + 1, Len(s))

\* `sub in s` of Python strings.
Contains(s, sub) ==
  \E i \in 0..(Len(s) - Len(sub)) : SubSeq(s, i + 1, i + Len(sub)) = sub

\* --------------------------------------------------------------------- URL
Words == {"http", "https", "HTTP", "ftp"}
UrlChars == Words \cup {":", "/", "?", "["}
UrlTexts == Texts(UrlChars, MaxUrlLen)

\* str.lower() of a word.
Lower(w) == IF w = "HTTP" THEN "http" ELSE w

NoURL == [scheme |-> <<>>, netloc |-> <<>>, path |-> <<>>, query |-> <<>>]

\* urllib.parse.urlparse: the scheme is the lowercased text before the first
\* ":" when that text is non-empty and made of scheme characters; the
\* network location follows a "//" that comes right after the scheme and
\* runs to the next "/" or "?"; the query follows the first "?" of the rest.
urlparse(url) ==
  LET i == Find(url, {":"})
      hasScheme == i >= 2 /\ \A j \in 1..(i - 1) : url[j] \in Words
      scheme == IF hasScheme THEN [j \in 1..(i - 1) |-> Lower(url[j])] ELSE <<>>
      rest == IF hasScheme THEN Drop(url, i) ELSE url
      hasNetloc == Len(rest) >= 2 /\ rest[1] = "/" /\ rest[2] = "/"
      after == IF hasNetloc THEN Drop(rest, 2) ELSE rest
      d == Find(after, {"/", "?"})
      netloc == IF ~hasNetloc THEN <<>>
                ELSE IF d = 0 THEN after ELSE SubSeq(after, 1, d - 1)
      tail == IF ~hasNetloc THEN rest
              ELSE IF d = 0 THEN <<>> ELSE Drop(after, d - 1)
      q == Find(tail, {"?"})
  IN  [scheme |-> scheme,
       netloc |-> netloc,
       path   |-> IF q = 0 THEN tail ELSE SubSeq(tail, 1, q - 1),
       query  |-> IF q = 0 THEN <<>> ELSE Drop(tail, q)]

\* urlparse raises ValueError ("Invalid IPv6 URL") for a network location
\* with an opening bracket and no closing one.
InvalidIPv6(url) ==
  LET n == urlparse(url).netloc IN \E i \in 1..Len(n) : n[i] = "["

\* ParseResult.geturl() of a result with a network location.
geturl(p) ==
  p.scheme \o <<":", "/", "/">> \o p.netloc \o p.path
    \o (IF p.query = <<>> THEN <<>> ELSE <<"?">> \o p.query)

\* A mutant of URL.convert: the scheme check leaves the scheme out of its message.
URLconvertNoScheme(value) ==
  LET p == urlparse(value)
  IN  IF InvalidIPv6(value)
      THEN [exc |-> "ValueError", url |-> NoURL, msg |-> <<"Invalid IPv6 URL">>]
      ELSE IF p.netloc = <<>>
      THEN [exc |-> "BadParameter", url |-> NoURL, msg |-> <<"incomplete URL">>]
      ELSE IF p.scheme \notin {<<"http">>, <<"https">>}
      THEN [exc |-> "BadParameter", url |-> NoURL,
            msg |-> <<"invalid URL scheme. Only HTTP URLs are allowed">>]
      ELSE [exc |-> "", url |-> p, msg |-> <<>>]

\* URL.convert of a text: urlparse may raise; then the network location is
\* checked, and the scheme after it.  exc is the exception raised, "" when
\* the parsed URL is returned; self.fail raises BadParameter.
URLconvert(value) ==
  LET p == urlparse(value)
  IN  IF InvalidIPv6(value)
      THEN [exc |-> "ValueError", url |-> NoURL, msg |-> <<"Invalid IPv6 URL">>]
      ELSE IF p.netloc = <<>>
      THEN [exc |-> "BadParameter", url |-> NoURL, msg |-> <<"incomplete URL">>]
      ELSE IF p.scheme \notin {<<"http">>, <<"https">>}
      THEN [exc |-> "BadParameter", url |-> NoURL,
            msg |-> <<"invalid URL scheme (">> \o p.scheme
                      \o <<"). Only HTTP URLs are allowed">>]
      ELSE [exc |-> "", url |-> p, msg |-> <<>>]

\* -------------------------------------------------------------------- JSON
JsonChars == {"{}", "x", "'", "\"", " "}
JsonTexts == Texts(JsonChars, MaxLen)

RECURSIVE lstrip(_, _)
lstrip(s, cs) == IF s # <<>> /\ s[1] \in cs THEN lstrip(Tail(s), cs) ELSE s

RECURSIVE rstrip(_, _)
rstrip(s, cs) ==
  IF s # <<>> /\ s[Len(s)] \in cs THEN rstrip(SubSeq(s, 1, Len(s) - 1), cs) ELSE s

\* str.strip(chars): every leading and trailing character of chars goes.
strip(s, cs) == rstrip(lstrip(s, cs), cs)

JSONDecodeError == [type |-> "JSONDecodeError", content |-> <<>>]

\* json.loads: blanks around the value are skipped; the value is the object {}
\* or a string, whose content runs to the next double quote; nothing may
\* follow the value.  A text that is not a value yields JSONDecodeError (a
\* ValueError in the code).
json_loads(s) ==
  LET t == strip(s, {" "})
  IN  IF t = <<"{}">> THEN [type |-> "object", content |-> <<>>]
      ELSE IF /\ Len(t) >= 2
              /\ t[1] = "\""
              /\ t[Len(t)] = "\""
              /\ \A i \in 2..(Len(t) - 1) : t[i] # "\""
      THEN [type |-> "string", content |-> SubSeq(t, 2, Len(t) - 1)]
      ELSE JSONDecodeError

\* json.dumps of a value json_loads returned.
json_dumps(v) ==
  IF v.type = "object" THEN <<"{}">> ELSE <<"\"">> \o v.content \o <<"\"">>

\* --------------------------------------------------------- the invocation
Commands == {"submit", "list", "status"}

\* how long to wait before giving up on requests to the API
TIMEOUT == 10

JobsUrl == <<"https://sandbox.timer.automate.globus.org/jobs/">>

Starts == {"none", "2020-01-01 00:00:00"}
Intervals == {0, 60}
JobIds == {"not-a-uuid", "12345678-1234-5678-1234-567812345678"}

\* The --action-url values of an invocation: a valid URL, one whose scheme is
\* upper case, one with a query, a foreign scheme with and without a network
\* location, a network location without scheme, and one urlparse rejects.
CliUrls ==
  { <<"http", ":", "/", "/", "ftp">>,
    <<"http", ":", "/", "/", "[">>,
    <<"HTTP", ":", "/", "/", "ftp", "?", "http">>,
    <<"ftp", ":", "/", "/", "ftp">>,
    <<"ftp", ":", "http">>,
    <<"/", "/", "ftp">> }

StatusCodes == {200, 201, 399, 400, 404, 500}
MaxRespLen == 2
ResponseBodies == Texts(JsonChars, MaxRespLen)

\* uuid.UUID(text): whether the text is a UUID.
IsUUID(j) == j = "12345678-1234-5678-1234-567812345678"

\* datetime.isoformat().
isoformat(d) == IF d = "2020-01-01 00:00:00" THEN "2020-01-01T00:00:00" ELSE d

NoParams ==
  [name |-> "", start |-> "none", interval |-> 0, action_url |-> NoURL,
   action_body |-> <<>>, job_id |-> ""]
NoRequest ==
  [name |-> "", start |-> "", interval |-> 0, callback_url |-> <<>>,
   callback_body |-> JSONDecodeError]
NoError == [exc |-> "none", param |-> "", msg |-> <<>>, raised |-> ""]
NoHeaders == [Authorization |-> <<>>]
NoResponse == [status_code |-> 0, body |-> <<>>]
NoCall == [method |-> "", url |-> <<>>, timeout |-> 0]
NoResult == [exc |-> "", url |-> NoURL, msg |-> <<>>]

\* One line of output: the stream, what the line is, its text, and the
\* status code it names (0 when it names none).
Line(stream, kind, text, code) ==
  [stream |-> stream, kind |-> kind, text |-> text, code |-> code]

VARIABLES
  pc,          \* where the process is
  cmd,         \* the command the dispatcher routed to
  params,      \* the parameters of the execution context
  req_json,    \* submit's request payload
  out,         \* the lines written, both streams, in order
  exitCode,    \* the exit status, once pc = "exited"
  term,        \* how the process ended
  error,       \* the usage error of the run, if any
  tokenCalls,  \* calls of get_access_token
  tokenError,  \* the exception get_access_token raised, "" if none
  headers,     \* what get_headers returned
  httpCalls,   \* calls of requests.get / requests.post
  sent,        \* the call made
  httpError,   \* the exception the call raised, "" if none
  response,    \* the response the call returned
  urlIn,       \* the text handed to URL.convert
  urlOut       \* what URL.convert made of it

vars ==
  <<pc, cmd, params, req_json, out, exitCode, term, error, tokenCalls,
    tokenError, headers, httpCalls, sent, httpError, response, urlIn, urlOut>>

stdout == SelectSeq(out, LAMBDA l : l.stream = "stdout")
stderr == SelectSeq(out, LAMBDA l : l.stream = "stderr")

\* ------------------------------------------------------------ the parsing
Error(exc, param, msg, raised) ==
  [exc |-> exc, param |-> param, msg |-> msg, raised |-> raised]

\* The parameters the decorators of a command declare, and what parsing an
\* argument list can end in: the parameters, or the first error raised.
SubmitParams ==
  { [name |-> "demo", start |-> s, interval |-> n,
     action_url |-> URLconvert(u).url, action_body |-> b, job_id |-> ""] :
      s \in Starts, n \in Intervals,
      u \in {v \in CliUrls : URLconvert(v).exc = ""}, b \in JsonTexts }

SubmitErrors ==
  { Error("MissingParameter", o, <<"Missing option">>, "make_context") :
      o \in {"--name", "--interval", "--action-url", "--action-body"} }
  \cup { Error("BadParameter", "--start", <<"invalid datetime format">>, "make_context"),
         Error("BadParameter", "--interval", <<"not a valid integer">>, "make_context"),
         Error("BadOptionUsage", "--name", <<"requires an argument">>, "make_context"),
         Error("NoSuchOption", "--bogus", <<"no such option">>, "make_context") }
  \cup { Error(URLconvert(u).exc, "--action-url", URLconvert(u).msg, "make_context") :
           u \in {v \in CliUrls : URLconvert(v).exc # ""} }

ListErrors ==
  { Error("BadOptionUsage", "--help", <<"does not take a value">>, "make_context"),
    Error("NoSuchOption", "--bogus", <<"no such option">>, "make_context") }

StatusParams == { [NoParams EXCEPT !.job_id = j] : j \in {i \in JobIds : IsUUID(i)} }

StatusErrors ==
  { Error("MissingParameter", "JOB_ID", <<"Missing argument">>, "make_context"),
    Error("NoSuchOption", "--bogus", <<"no such option">>, "make_context") }
  \cup { Error("BadParameter", "JOB_ID", <<j, " is not a valid UUID">>, "make_context") :
           j \in {i \in JobIds : ~IsUUID(i)} }

ParseOutcomes(c) ==
  LET ps == CASE c = "submit" -> SubmitParams
              [] c = "list" -> {NoParams}
              [] OTHER -> StatusParams
      es == CASE c = "submit" -> SubmitErrors
              [] c = "list" -> ListErrors
              [] OTHER -> StatusErrors
  IN  {[error |-> NoError, params |-> q] : q \in ps}
        \cup {[error |-> e, params |-> NoParams] : e \in es}

\* ------------------------------------------------------ ends of the process
Ended(o, code, how) == [out |-> o, exitCode |-> code, term |-> how]

\* e.show(): the error message, on the error stream.
show(e, o) == Append(o, Line("stderr", "error", e.msg, 0))

\* click.echo(): a blank line on standard output.
echo(o) == Append(o, Line("stdout", "blank", <<>>, 0))

\* A mutant of show_usage: the process ends and no help text is written.
show_usage_silent(c, o) == Ended(o, 0, "ctx.exit")

\* show_usage: the help text of the command on standard output, then
\* ctx.exit(), which ends the process with status 0; the sys.exit(2) that
\* follows it is never reached.
show_usage(c, o) ==
  Ended(Append(o, Line("stdout", "usage", <<c>>, 0)), 0, "ctx.exit")

\* A usage error no handler of this module catches reaches the entry point,
\* whose framework shows the message and exits with the error's exit code.
main_usage_error(e, o) == Ended(show(e, o), 2, "UsageError")

\* Any other exception no handler catches ends the process with a traceback
\* on the error stream and status 1.
main_uncaught(exc, o) ==
  Ended(Append(o, Line("stderr", "traceback", <<exc>>, 0)), 1, "uncaught")

\* A mutant of handle_requests_exception: the message is written and the
\* process is not ended, so the command returns.
handle_requests_exception_returns(e, o) ==
  Ended(Append(o, Line("stderr", "error in request", <<e>>, 0)), 0, "return")

\* handle_requests_exception: the message on the error stream, sys.exit(1).
handle_requests_exception(e, o) ==
  Ended(Append(o, Line("stderr", "error in request", <<e>>, 0)), 1, "sys.exit")

\* show_response: the diagnostic for a status of 400 and more, then the body,
\* decoded and serialised again; a body that does not decode raises.
show_response(r, o) ==
  LET o1 == IF r.status_code >= 400
            THEN Append(o, Line("stderr", "got response code", <<>>, r.status_code))
            ELSE o
      body == json_loads(r.body)
  IN  IF body = JSONDecodeError
      THEN main_uncaught("JSONDecodeError", o1)
      ELSE Ended(Append(o1, Line("stdout", "json", json_dumps(body), 0)), 0, "return")

Exit(e) ==
  /\ pc' = "exited"
  /\ out' = e.out
  /\ exitCode' = e.exitCode
  /\ term' = e.term

\* ------------------------------------------------------------ the actions
\* Command.make_context.
make_context ==
  /\ pc = "make_context"
  /\ \E a \in ParseOutcomes(cmd) :
       \/ /\ a.error.exc = "none"
          /\ params' = a.params
          /\ pc' = IF cmd = "submit" THEN "submit" ELSE "get_headers"
          /\ UNCHANGED <<out, exitCode, term, error>>
       \/ /\ a.error.exc = "MissingParameter"
          /\ error' = a.error
          /\ Exit(show_usage(cmd, echo(show(a.error, out))))
          /\ UNCHANGED params
       \/ /\ a.error.exc \in {"BadArgumentUsage", "BadOptionUsage", "BadParameter"}
          /\ error' = a.error
          /\ Exit(show_usage(cmd, echo(show(a.error, out))))
          /\ UNCHANGED params
       \/ /\ a.error.exc = "NoSuchOption"
          /\ error' = a.error
          /\ Exit(main_usage_error(a.error, out))
          /\ UNCHANGED params
       \/ /\ a.error.exc = "ValueError"
          /\ error' = a.error
          /\ Exit(main_uncaught(a.error.exc, out))
          /\ UNCHANGED params
  /\ UNCHANGED <<cmd, req_json, tokenCalls, tokenError, headers, httpCalls, sent,
                 httpError, response, urlIn, urlOut>>

\* A mutant of lines 164-171: a text that does not parse is sent as a string.
callback_body_lenient(action_body) ==
  IF json_loads(action_body) = JSONDecodeError
  THEN [type |-> "string", content |-> action_body]
  ELSE json_loads(action_body)

\* submit, lines 164-166: the stripped text is stored and then overwritten by
\* the parse of action_body itself.
callback_body(action_body) ==
  LET callback_body_165 == strip(strip(action_body, {"'"}), {"\""})
      callback_body_166 == json_loads(action_body)
  IN  callback_body_166

\* submit, up to the request payload.
submit_payload ==
  /\ pc = "submit"
  /\ LET body == callback_body(params.action_body)
     IN  \/ /\ body = JSONDecodeError
            /\ error' = Error("BadOptionUsage", "action-body",
                              <<"--action-body must parse into valid JSON; got error: ",
                                "JSONDecodeError">>, "body")
            /\ Exit(main_usage_error(error', out))
            /\ UNCHANGED req_json
         \/ /\ body # JSONDecodeError
            /\ req_json' =
                 [name |-> params.name,
                  start |-> isoformat(IF params.start = "none" THEN "now" ELSE params.start),
                  interval |-> params.interval,
                  callback_url |-> geturl(params.action_url),
                  callback_body |-> body]
            /\ pc' = "get_headers"
            /\ UNCHANGED <<out, exitCode, term, error>>
  /\ UNCHANGED <<cmd, params, tokenCalls, tokenError, headers, httpCalls, sent,
                 httpError, response, urlIn, urlOut>>

\* What get_access_token ends in: a token, or an exception of the provider
\* (which may itself be a RequestException).
TokenOutcomes ==
  { [token |-> "abc", exc |-> ""],
    [token |-> "", exc |-> "AuthenticationError"],
    [token |-> "", exc |-> "RequestException"] }

\* A mutant of the commands: get_headers() stands inside the try, so that a
\* RequestException of the provider is handled as one of the HTTP call.
get_headers_in_try ==
  /\ pc = "get_headers"
  /\ tokenCalls' = tokenCalls + 1
  /\ \E t \in TokenOutcomes :
       \/ /\ t.exc = ""
          /\ headers' = [Authorization |-> <<"Bearer ", t.token>>]
          /\ pc' = "request"
          /\ UNCHANGED <<out, exitCode, term, tokenError>>
       \/ /\ t.exc # ""
          /\ tokenError' = t.exc
          /\ Exit(IF t.exc = "RequestException"
                  THEN handle_requests_exception(t.exc, out)
                  ELSE main_uncaught(t.exc, out))
          /\ UNCHANGED headers
  /\ UNCHANGED <<cmd, params, req_json, error, httpCalls, sent, httpError,
                 response, urlIn, urlOut>>

\* headers = get_headers(), which stands before the try of each command.
get_headers ==
  /\ pc = "get_headers"
  /\ tokenCalls' = tokenCalls + 1
  /\ \E t \in TokenOutcomes :
       \/ /\ t.exc = ""
          /\ headers' = [Authorization |-> <<"Bearer ", t.token>>]
          /\ pc' = "request"
          /\ UNCHANGED <<out, exitCode, term, tokenError>>
       \/ /\ t.exc # ""
          /\ tokenError' = t.exc
          /\ Exit(main_uncaught(t.exc, out))
          /\ UNCHANGED headers
  /\ UNCHANGED <<cmd, params, req_json, error, httpCalls, sent, httpError,
                 response, urlIn, urlOut>>

\* What the HTTP call ends in: a response, or a RequestException.
Responses == [status_code : StatusCodes, body : ResponseBodies]
RequestExceptions == {"ConnectionError", "Timeout"}

\* A mutant of the commands: a call that raised is made once more.
request_retry(method, url) ==
  /\ pc = "request"
  /\ httpCalls' = httpCalls + 1
  /\ sent' = [method |-> method, url |-> url, timeout |-> TIMEOUT]
  /\ \/ \E r \in Responses :
          /\ response' = r
          /\ pc' = "show_response"
          /\ UNCHANGED <<out, exitCode, term, httpError>>
     \/ \E e \in RequestExceptions :
          /\ httpError' = e
          /\ IF httpCalls = 0
             THEN UNCHANGED <<pc, out, exitCode, term>>
             ELSE Exit(handle_requests_exception(e, out))
          /\ UNCHANGED response
  /\ UNCHANGED <<cmd, params, req_json, error, tokenCalls, tokenError, headers,
                 urlIn, urlOut>>

\* try: response = requests.<method>(url, ..., timeout=TIMEOUT)
\* except requests.RequestException as e: handle_requests_exception(e)
request(method, url) ==
  /\ pc = "request"
  /\ httpCalls' = httpCalls + 1
  /\ sent' = [method |-> method, url |-> url, timeout |-> TIMEOUT]
  /\ \/ \E r \in Responses :
          /\ response' = r
          /\ pc' = "show_response"
          /\ UNCHANGED <<out, exitCode, term, httpError>>
     \/ \E e \in RequestExceptions :
          /\ httpError' = e
          /\ Exit(handle_requests_exception(e, out))
          /\ UNCHANGED response
  /\ UNCHANGED <<cmd, params, req_json, error, tokenCalls, tokenError, headers,
                 urlIn, urlOut>>

\* show_response(response), the last statement of each command.
present ==
  /\ pc = "show_response"
  /\ Exit(show_response(response, out))
  /\ UNCHANGED <<cmd, params, req_json, error, tokenCalls, tokenError, headers,
                 httpCalls, sent, httpError, response, urlIn, urlOut>>

submit ==
  /\ cmd = "submit"
  /\ \/ submit_payload
     \/ get_headers
     \/ request("POST", JobsUrl)
     \/ present

list ==
  /\ cmd = "list"
  /\ \/ get_headers
     \/ request("GET", JobsUrl)
     \/ present

status ==
  /\ cmd = "status"
  /\ \/ get_headers
     \/ request("GET", JobsUrl \o <<params.job_id>>)
     \/ present

Init ==
  /\ pc = "make_context"
  /\ cmd \in Commands
  /\ params = NoParams
  /\ req_json = NoRequest
  /\ out = <<>>
  /\ exitCode = -1
  /\ term = ""
  /\ error = NoError
  /\ tokenCalls = 0
  /\ tokenError = ""
  /\ headers = NoHeaders
  /\ httpCalls = 0
  /\ sent = NoCall
  /\ httpError = ""
  /\ response = NoResponse
  /\ urlIn = <<>>
  /\ urlOut = NoResult

Next == make_context \/ submit \/ list \/ status

Spec == Init /\ [][Next]_vars

\* ------------------------------------------------- the URL type on its own
InitURL ==
  /\ pc = "convert"
  /\ cmd = "submit"
  /\ params = NoParams
  /\ req_json = NoRequest
  /\ out = <<>>
  /\ exitCode = -1
  /\ term = ""
  /\ error = NoError
  /\ tokenCalls = 0
  /\ tokenError = ""
  /\ headers = NoHeaders
  /\ httpCalls = 0
  /\ sent = NoCall
  /\ httpError = ""
  /\ response = NoResponse
  /\ urlIn \in UrlTexts
  /\ urlOut = NoResult

convert ==
  /\ pc = "convert"
  /\ urlOut' = URLconvert(urlIn)
  /\ pc' = "converted"
  /\ UNCHANGED <<cmd, params, req_json, out, exitCode, term, error, tokenCalls,
                 tokenError, headers, httpCalls, sent, httpError, response, urlIn>>

NextURL == convert

SpecURL == InitURL /\ [][NextURL]_vars

\* ---------------------------------------------------------------- claims
\* The errors the claims call argument or parameter errors, by where they
\* are raised.
UsageKinds == {"MissingParameter", "BadArgumentUsage", "BadOptionUsage", "BadParameter"}
Http == {<<"http">>, <<"https">>}
Received == response # NoResponse
ErrorInRequest(e) == Line("stderr", "error in request", <<e>>, 0)
Kinds(o) == {o[i].kind : i \in 1..Len(o)}

\* C1: a run with an argument or parameter error (any error of parsing, or
\* an action-body that is not JSON) never makes an HTTP call, nor asks the
\* token provider for a token.
C1_NoCallOnArgumentError ==
  /\ error.exc # "none" => httpCalls = 0 /\ tokenCalls = 0 /\ sent = NoCall
  /\ cmd = "submit" /\ json_loads(params.action_body) = JSONDecodeError
       => httpCalls = 0 /\ pc \in {"make_context", "submit", "exited"}

C1_Witness ==
  /\ pc = "exited"
  /\ cmd = "submit"
  /\ error.raised = "body"
  /\ params.action_body = <<"'", "{}", "'">>
  /\ httpCalls = 0

\* C2: a run that ends in a missing-parameter, bad-argument, bad-option or
\* bad-parameter error exits with a status other than 0.
C2_ArgumentErrorExitsNonZero ==
  pc = "exited" /\ error.exc \in UsageKinds => exitCode # 0

C4_TransportError ==
  httpError # ""
    => /\ pc = "exited"
       /\ stderr = <<ErrorInRequest(httpError)>>
       /\ stdout = <<>>
       /\ exitCode = 1

C4_Witness ==
  /\ pc = "exited"
  /\ cmd = "status"
  /\ httpError = "Timeout"
  /\ httpCalls = 1

\* C5: a run whose HTTP call returned a response writes the body as one
\* JSON line on standard output and exits with status 0, whatever the
\* status code, with the diagnostic `got response code` exactly when the
\* status code is 400 or more.
C5_ResponseShown ==
  pc = "exited" /\ Received
    => /\ Len(stdout) = 1
       /\ stdout[1].kind = "json"
       /\ exitCode = 0
       /\ (response.status_code >= 400
             <=> Line("stderr", "got response code", <<>>, response.status_code)
                   \in {stderr[i] : i \in 1..Len(stderr)})

\* C6: a run makes at most one HTTP call: none follows the call that
\* returned a response or raised.
C6_AtMostOneCall ==
  /\ httpCalls <= 1
  /\ Received \/ httpError # "" => httpCalls = 1 /\ pc \in {"show_response", "exited"}

C6_Witness ==
  /\ pc = "exited"
  /\ httpCalls = 1
  /\ response.status_code = 500

C8_SchemeNamedAlways ==
  /\ pc = "converted"
  /\ ~InvalidIPv6(urlIn)
  /\ urlparse(urlIn).scheme # <<>>
  /\ urlparse(urlIn).scheme \notin Http
  => /\ urlOut.exc = "BadParameter"
     /\ Contains(urlOut.msg, urlparse(urlIn).scheme)

\* C8, amended: a text whose scheme is neither http nor https fails; the
\* message contains the scheme when the text has a network location and is
\* "incomplete URL" when it has none, and a text urlparse rejects fails with
\* urlparse's ValueError.
C8_SchemeNamedWithNetloc ==
  /\ pc = "converted"
  /\ urlparse(urlIn).scheme # <<>>
  /\ urlparse(urlIn).scheme \notin Http
  => IF InvalidIPv6(urlIn) THEN urlOut.exc = "ValueError"
     ELSE /\ urlOut.exc = "BadParameter"
          /\ IF urlparse(urlIn).netloc = <<>>
             THEN urlOut.msg = <<"incomplete URL">>
             ELSE Contains(urlOut.msg, urlparse(urlIn).scheme)

C8_Witness ==
  /\ pc = "converted"
  /\ urlIn = <<"ftp", ":", "/", "/", "ftp">>
  /\ urlOut.exc = "BadParameter"
  /\ Contains(urlOut.msg, <<"ftp">>)

\* C9: an action-body that is a JSON text inside one pair of quote
\* characters passes validation, and the payload's callback_body is the
\* value of the inner text.
C9_QuotesStripped ==
  \A q \in {"'", "\""} : \A j \in JsonTexts :
    /\ cmd = "submit"
    /\ pc \notin {"make_context", "submit"}
    /\ error.raised # "make_context"
    /\ json_loads(j) # JSONDecodeError
    /\ params.action_body = <<q>> \o j \o <<q>>
    => /\ error.exc = "none"
       /\ req_json.callback_body = json_loads(j)

\* C10: a response whose body does not decode as JSON is handled as a
\* transport error: the one line `error in request`, status 1, and no
\* uncaught failure.
C10_MalformedResponse ==
  pc = "exited" /\ Received /\ json_loads(response.body) = JSONDecodeError
    => /\ Len(out) = 1
       /\ out[1].kind = "error in request"
       /\ exitCode = 1
       /\ term # "uncaught"

====
